---------------------------- MODULE Spec2Model ----------------------------
(***************************************************************************)
(* A model of the Flipkart ETL pipeline (FlipkartETL in                    *)
(* artifact_modular_ETL_PIPELINE.py): extract_data, transform_data,        *)
(* load_data_to_redshift and run_etl.                                      *)
(*                                                                         *)
(* Text is modelled as a sequence of characters, each character a          *)
(* one-character string; the token "RUPEE" stands for the single character *)
(* U+20B9 (the rupee sign).  A DataFrame cell is a record: [str |-> text], *)
(* [num |-> n] (an integer), [flt |-> text] (a float, by its literal) or   *)
(* NA (a missing value).                                                   *)
(***************************************************************************)
EXTENDS Integers, Sequences, FiniteSets, TLC

VARIABLES
    pc,                \* where run_etl stands
    s3_object,         \* what the bucket holds under file_key
    raw_data,          \* the DataFrame extract_data returned (mutated in place)
    transformed_data,  \* the DataFrame transform_data returned
    artifacts,         \* the files artifacts/raw_data.csv, transformed_data.csv
    warehouse,         \* the contents of the Redshift table
    log,               \* the messages logged so far
    error,             \* the exception that ended the run, or "none"
    rule,              \* rule harness: the column whose rule is applied
    arg,               \* rule harness: the input cell
    results            \* rule harness: the successive results

vars == <<pc, s3_object, raw_data, transformed_data, artifacts, warehouse,
          log, error, rule, arg, results>>

----------------------------------------------------------------------------
(* Bounds of the model.                                                    *)

\* the largest table is MaxRows rows long (above the 50 rows head() keeps)
MaxRows == 52
\* tables of 0..MaxSmallRows rows are drawn with every variant row
MaxSmallRows == 2
\* price texts of the harness are at most this many characters long
MaxPriceLen == 4
\* harness values are built of at most this many tokens or fragments
MaxParts == 3
\* the harness applies a rule at most this many times in a row
MaxApply == 2

----------------------------------------------------------------------------
(* Text: the operations of Python's str and re that the code uses.         *)

\* the whitespace characters of the inputs (str.split and str.strip know more)
WhiteSpace == {" ", "\t"}

\* the characters r'\d' matches among those of the inputs
Digits == {"0", "1", "2", "3", "4", "5", "6", "7", "8", "9"}

DigitVal(c) ==
    CASE c = "0" -> 0 [] c = "1" -> 1 [] c = "2" -> 2 [] c = "3" -> 3
      [] c = "4" -> 4 [] c = "5" -> 5 [] c = "6" -> 6 [] c = "7" -> 7
      [] c = "8" -> 8 [] c = "9" -> 9

DigitChar(d) == <<"0", "1", "2", "3", "4", "5", "6", "7", "8", "9">>[d + 1]

StartsWith(s, p) == Len(p) <= Len(s) /\ SubSeq(s, 1, Len(p)) = p

\* Python's `p in s`
Contains(s, p) == \E i \in 0..(Len(s) - Len(p)) : SubSeq(s, i + 1, i + Len(p)) = p

Drop(s, n) == SubSeq(s, n + 1, Len(s))

\* str.replace(key, val) / re.sub of a literal: leftmost, non-overlapping
RECURSIVE Replace(_, _, _)
Replace(s, key, val) ==
    IF Len(s) < Len(key) \/ key = <<>> THEN s
    ELSE IF StartsWith(s, key) THEN val \o Replace(Drop(s, Len(key)), key, val)
    ELSE <<Head(s)>> \o Replace(Tail(s), key, val)

\* str.lstrip(), str.rstrip(), str.strip()
RECURSIVE LStrip(_)
LStrip(s) == IF s # <<>> /\ Head(s) \in WhiteSpace THEN LStrip(Tail(s)) ELSE s

RECURSIVE RStrip(_)
RStrip(s) ==
    IF s # <<>> /\ s[Len(s)] \in WhiteSpace THEN RStrip(SubSeq(s, 1, Len(s) - 1)) ELSE s

Strip(s) == RStrip(LStrip(s))

\* the length of the longest prefix of s with no character of stop
RECURSIVE SpanUntil(_, _)
SpanUntil(s, stop) ==
    IF s = <<>> \/ Head(s) \in stop THEN 0 ELSE 1 + SpanUntil(Tail(s), stop)

\* str.split(): the maximal runs of non-whitespace characters, in order
RECURSIVE Split(_)
Split(s) ==
    LET t == LStrip(s)
        n == SpanUntil(t, WhiteSpace)
    IN  IF t = <<>> THEN <<>> ELSE <<SubSeq(t, 1, n)>> \o Split(Drop(t, n))

\* str.split(sep)[0]: the text before the first sep
BeforeFirst(s, sep) == SubSeq(s, 1, SpanUntil(s, {sep}))

\* list[:n]
FirstN(xs, n) == SubSeq(xs, 1, IF Len(xs) < n THEN Len(xs) ELSE n)

\* sep.join(tokens)
RECURSIVE Join(_, _)
Join(tokens, sep) ==
    IF tokens = <<>> THEN <<>>
    ELSE IF Len(tokens) = 1 THEN tokens[1]
    ELSE tokens[1] \o sep \o Join(Tail(tokens), sep)

\* re.sub(r'\D', '', s): the digit characters of s, in order
RECURSIVE RemoveNonDigits(_)
RemoveNonDigits(s) ==
    IF s = <<>> THEN <<>>
    ELSE IF Head(s) \in Digits THEN <<Head(s)>> \o RemoveNonDigits(Tail(s))
    ELSE RemoveNonDigits(Tail(s))

\* int(s) of a digit string
RECURSIVE ParseDigits(_)
ParseDigits(s) ==
    IF s = <<>> THEN 0 ELSE 10 * ParseDigits(SubSeq(s, 1, Len(s) - 1)) + DigitVal(s[Len(s)])

\* str(n), n >= 0
RECURSIVE NatToStr(_)
NatToStr(n) == IF n < 10 THEN <<DigitChar(n)>> ELSE NatToStr(n \div 10) \o <<DigitChar(n % 10)>>

IntToStr(n) == IF n < 0 THEN <<"-">> \o NatToStr(-n) ELSE NatToStr(n)

IsDigits(s) == s # <<>> /\ \A i \in 1..Len(s) : s[i] \in Digits

\* the texts the CSV parser reads as an integer: an optional sign, digits
IsIntText(s) == IsDigits(IF s # <<>> /\ Head(s) = "-" THEN Tail(s) ELSE s)

\* ... and as a float: an optional sign, digits, a point, digits
IsFloatText(s) ==
    LET u == IF s # <<>> /\ Head(s) = "-" THEN Tail(s) ELSE s
        n == SpanUntil(u, {"."})
    IN  n < Len(u) /\ IsDigits(SubSeq(u, 1, n)) /\ IsDigits(Drop(u, n + 1))

ParseInt(s) == IF Head(s) = "-" THEN -ParseDigits(Tail(s)) ELSE ParseDigits(s)

----------------------------------------------------------------------------
(* The literals of transform_data.                                         *)

prefix == <<"U", "n", "n", "a", "m", "e", "d", ":">>

Title == <<"T", "i", "t", "l", "e">>
Brand_Name == <<"B", "r", "a", "n", "d", "_", "N", "a", "m", "e">>
Processor == <<"P", "r", "o", "c", "e", "s", "s", "o", "r">>
RAM == <<"R", "A", "M">>
Operating_System == <<"O", "p", "e", "r", "a", "t", "i", "n", "g", "_", "S", "y", "s", "t", "e", "m">>
Warranty == <<"W", "a", "r", "r", "a", "n", "t", "y">>
Prices == <<"P", "r", "i", "c", "e", "s">>
Rating == <<"R", "a", "t", "i", "n", "g">>

\* the columns transform_data reads by name
RequiredColumns == <<Title, Processor, RAM, Operating_System, Warranty, Prices, Rating>>

\* the two str.replace calls on Processor, in order
processor_replacements ==
    << <<<<"I", "n", "t", "e", "l", " ", "C", "o", "r", "e", " ", "5", " ", "P", "r", "o", "c", "e", "s", "s", "o", "r">>, <<"I", "n", "t", "e", "l", " ", "C", "o", "r", "e", " ", "i", "5", " ", "P", "r", "o", "c", "e", "s", "s", "o", "r">>>>,
       <<<<"I", "n", "t", "e", "l", " ", "C", "o", "r", "e", " ", "7", " ", "P", "r", "o", "c", "e", "s", "s", "o", "r">>, <<"I", "n", "t", "e", "l", " ", "C", "o", "r", "e", " ", "i", "7", " ", "P", "r", "o", "c", "e", "s", "s", "o", "r">>>> >>

os_replacements ==
    << <<<<"6", "4", " ", "b", "i", "t", " ", "W", "i", "n", "d", "o", "w", "s", " ", "1", "1", " ", "H", "o", "m", "e", " ", "O", "p", "e", "r", "a", "t", "i", "n", "g", " ", "S", "y", "s", "t", "e", "m">>,
         <<"6", "4", " ", "b", "i", "t", " ", "W", "i", "n", "d", "o", "w", "s", " ", "1", "1", " ", "O", "p", "e", "r", "a", "t", "i", "n", "g", " ", "S", "y", "s", "t", "e", "m">>>> >>

\* the dict, in insertion order (the order items() yields)
warranty_replacements ==
    << <<<<"1", " ", "Y", "r">>, <<"1", " ", "Y", "e", "a", "r">>>>,
       <<<<"1", " ", "Y", "e", "r", "a">>, <<"1", " ", "Y", "e", "a", "r">>>>,
       <<<<"1", " ", "Y", "e", "a", "r", "s", " ">>, <<"1", " ", "Y", "e", "a", "r">>>>,
       <<<<"1", " ", "y", "e", "a", "r">>, <<"1", " ", "Y", "e", "a", "r">>>>,
       <<<<"1", " ", "Y", "e", "a", "r", "s">>, <<"1", " ", "Y", "e", "a", "r">>>>,
       <<<<"O", "n", "e", "-", "y", "e", "a", "r", " ", "I", "n", "t", "e", "r", "n", "a", "t", "i", "o", "n", "a", "l">>, <<"1", " ", "Y", "e", "a", "r">>>>,
       <<<<"3", " ", "Y", "e", "a", "r", "s">>, <<"3", " ", "Y", "e", "a", "r">>>>,
       <<<<"2", " ", "Y", "e", "a", "r", "s">>, <<"2", " ", "Y", "e", "a", "r">>>> >>

rating_replacements ==
    << <<<<"7", "4", ",", "9", "9", "0">>, <<"4", ".", "3">>>>,
       <<<<"5", "7", ",", "4", "9", "9">>, <<"4", ".", "3">>>> >>

\* raw_data.head(50)
HeadRows == 50

----------------------------------------------------------------------------
(* Cells, and the rule of each column on one cell of a text column.        *)

NA == [na |-> TRUE]
Str(s) == [str |-> s]
Num(n) == [num |-> n]
Flt(s) == [flt |-> s]
Raise(e) == [raise |-> e]

IsStr(c) == DOMAIN c = {"str"}
IsNum(c) == DOMAIN c = {"num"}
IsFlt(c) == DOMAIN c = {"flt"}
IsRaise(c) == DOMAIN c = {"raise"}

\* for key, value in replacements: s = s.replace(key, value)
RECURSIVE ReplaceEach(_, _)
ReplaceEach(s, replacements) ==
    IF replacements = <<>> THEN s
    ELSE ReplaceEach(Replace(s, replacements[1][1], replacements[1][2]), Tail(replacements))

\* .str.split().str[0]: a missing value stays missing, no token gives missing
BrandOf(c) ==
    IF ~IsStr(c) THEN NA
    ELSE IF Split(c.str) = <<>> THEN NA ELSE Str(Split(c.str)[1])

\* .str.split('(').str[0].str.strip(), then the two replacements
ProcessorRule(c) ==
    IF ~IsStr(c) THEN NA
    ELSE Str(ReplaceEach(Strip(BeforeFirst(c.str, "(")), processor_replacements))

\* .str.split().str[:2].apply(' '.join): join of a missing value is a TypeError
FirstTwoTokens(c) ==
    IF ~IsStr(c) THEN Raise("TypeError")
    ELSE Str(Join(FirstN(Split(c.str), 2), <<" ">>))

RamRule(c) == FirstTwoTokens(c)

OsRule(c) == IF ~IsStr(c) THEN NA ELSE Str(ReplaceEach(c.str, os_replacements))

WarrantyRule(c) ==
    LET two == FirstTwoTokens(c)
    IN  IF IsRaise(two) THEN two ELSE Str(ReplaceEach(two.str, warranty_replacements))

\* pd.to_numeric(errors='coerce') of one text: digits parse, the empty text is missing
ToNumeric(s) == IF IsDigits(s) THEN Num(ParseDigits(s)) ELSE NA

\* the price rule without the removal of the non-digits
PriceRule_commas_only(c) ==
    IF ~IsStr(c) THEN NA
    ELSE ToNumeric(Replace(c.str, <<",">>, <<>>))

\* .str.replace(',', '').str.replace(r'\D', '', regex=True), to_numeric, Int64
PriceRule(c) ==
    IF ~IsStr(c) THEN NA
    ELSE ToNumeric(RemoveNonDigits(Replace(c.str, <<",">>, <<>>)))

RatingRule(c) == IF ~IsStr(c) THEN NA ELSE Str(ReplaceEach(c.str, rating_replacements))

\* the rule transform_data applies to the cells of column col
CellRule(col, c) ==
    CASE col = Processor -> ProcessorRule(c)
      [] col = RAM -> RamRule(c)
      [] col = Operating_System -> OsRule(c)
      [] col = Warranty -> WarrantyRule(c)
      [] col = Prices -> PriceRule(c)
      [] col = Rating -> RatingRule(c)

----------------------------------------------------------------------------
(* Tables.  A CSV object is [columns, rows] with a text in every field; a   *)
(* DataFrame adds the dtype of each column and holds cells.                *)

None == [none |-> TRUE]

SeqToSet(xs) == {xs[i] : i \in 1..Len(xs)}

\* the texts read_csv reads as a missing value (of its default na_values)
NaTexts == {<<>>, <<"N", "/", "A">>, <<"N", "A">>, <<"N", "a", "N">>}

ColumnTexts(obj, col) == {obj.rows[i][col] : i \in 1..Len(obj.rows)} \ NaTexts

\* the dtype read_csv infers for a column
InferDtype(obj, col) ==
    IF obj.rows = <<>> THEN "object"
    ELSE IF \E i \in 1..Len(obj.rows) : obj.rows[i][col] \in NaTexts
         THEN IF \A s \in ColumnTexts(obj, col) : IsIntText(s) \/ IsFloatText(s)
              THEN "float64" ELSE "object"
    ELSE IF \A s \in ColumnTexts(obj, col) : IsIntText(s) THEN "int64"
    ELSE IF \A s \in ColumnTexts(obj, col) : IsIntText(s) \/ IsFloatText(s) THEN "float64"
    ELSE "object"

\* the literal of a float as to_csv writes it (the float texts read are in this form)
FloatRepr(s) == IF IsIntText(s) THEN IntToStr(ParseInt(s)) \o <<".", "0">> ELSE s

ParseCell(s, dtype) ==
    IF s \in NaTexts THEN NA
    ELSE IF dtype = "int64" THEN Num(ParseInt(s))
    ELSE IF dtype = "float64" THEN Flt(FloatRepr(s))
    ELSE Str(s)

\* pd.read_csv(body)
ReadCsv(obj) ==
    LET dtypes == [c \in SeqToSet(obj.columns) |-> InferDtype(obj, c)]
    IN  [columns |-> obj.columns,
         dtypes  |-> dtypes,
         rows    |-> [i \in 1..Len(obj.rows) |->
                        [c \in SeqToSet(obj.columns) |-> ParseCell(obj.rows[i][c], dtypes[c])]]]

FormatCell(c) ==
    IF IsStr(c) THEN c.str
    ELSE IF IsNum(c) THEN IntToStr(c.num)
    ELSE IF IsFlt(c) THEN c.flt
    ELSE <<>>

\* DataFrame.to_csv(path, index=False): the file's header and fields
ToCsv(t) ==
    [columns |-> t.columns,
     rows    |-> [i \in 1..Len(t.rows) |->
                    [c \in SeqToSet(t.columns) |-> FormatCell(t.rows[i][c])]]]

\* DataFrame.head(n)
head(t, n) == [t EXCEPT !.rows = FirstN(t.rows, n)]

NULL == [null |-> TRUE]

\* to_sql with if_exists='append': the frame's rows go after the table's
ToSql_append(old, t) ==
    [columns |-> t.columns,
     rows    |-> (IF old = None THEN <<>> ELSE old.rows) \o
                 [i \in 1..Len(t.rows) |->
                    [c \in SeqToSet(t.columns) |->
                        IF t.rows[i][c] = NA THEN NULL ELSE t.rows[i][c]]]]

\* DataFrame.to_sql(table_name, engine, index=False, if_exists='replace'):
\* the table is dropped and created anew from the frame, a missing value as NULL
ToSql(old, t) ==
    [columns |-> t.columns,
     rows    |-> [i \in 1..Len(t.rows) |->
                    [c \in SeqToSet(t.columns) |->
                        IF t.rows[i][c] = NA THEN NULL ELSE t.rows[i][c]]]]

----------------------------------------------------------------------------
(* transform_data, statement by statement.  A step gives the frame after   *)
(* it and the exception it raised ("none": it returned); the frame is      *)
(* mutated in place, so a raise leaves the earlier steps' changes.         *)

Ok(t) == [err |-> "none", table |-> t]
Fail(e, t) == [err |-> e, table |-> t]

RECURSIVE Without(_, _)
Without(xs, drop) ==
    IF xs = <<>> THEN <<>>
    ELSE IF Head(xs) \in drop THEN Without(Tail(xs), drop)
    ELSE <<Head(xs)>> \o Without(Tail(xs), drop)

\* DataFrame.drop(columns=..., inplace=True)
DropColumns(t, drop) ==
    LET keep == SeqToSet(t.columns) \ drop
    IN  [columns |-> Without(t.columns, drop),
         dtypes  |-> [c \in keep |-> t.dtypes[c]],
         rows    |-> [i \in 1..Len(t.rows) |-> [c \in keep |-> t.rows[i][c]]]]

\* raw_data[col] = values (one value a row): a new column goes last
SetColumn(t, col, values, dtype) ==
    LET cols == SeqToSet(t.columns) \cup {col}
    IN  [columns |-> IF col \in SeqToSet(t.columns) THEN t.columns
                     ELSE Append(t.columns, col),
         dtypes  |-> [c \in cols |-> IF c = col THEN dtype ELSE t.dtypes[c]],
         rows    |-> [i \in 1..Len(t.rows) |->
                        [c \in cols |-> IF c = col THEN values[i] ELSE t.rows[i][c]]]]

\* raw_data.filter(like=prefix).columns: the labels with `prefix in label`
cols_to_drop(t) == {c \in SeqToSet(t.columns) : Contains(c, prefix)}

DropArtifactColumns(t) == Ok(DropColumns(t, cols_to_drop(t)))

\* raw_data[col].str: a KeyError without the column, an AttributeError
\* ("Can only use .str accessor with string values") unless it holds text
StrAccessor(t, col) ==
    IF col \notin SeqToSet(t.columns) THEN "KeyError"
    ELSE IF t.dtypes[col] # "object" THEN "AttributeError"
    ELSE "none"

BrandStep(t) ==
    IF StrAccessor(t, Title) # "none" THEN Fail(StrAccessor(t, Title), t)
    ELSE LET brand == [i \in 1..Len(t.rows) |-> BrandOf(t.rows[i][Title])]
         IN  Ok(DropColumns(SetColumn(t, Brand_Name, brand, "object"), {Title}))

\* the statements on one column: .str, the rule on every cell, the assignment
ColumnStep(t, col, dtype) ==
    IF StrAccessor(t, col) # "none" THEN Fail(StrAccessor(t, col), t)
    ELSE LET values == [i \in 1..Len(t.rows) |-> CellRule(col, t.rows[i][col])]
         IN  IF \E i \in 1..Len(t.rows) : IsRaise(values[i])
             THEN Fail("TypeError", t)
             ELSE Ok(SetColumn(t, col, values, dtype))

ProcessorStep(t) == ColumnStep(t, Processor, "object")
RamStep(t) == ColumnStep(t, RAM, "object")
OsStep(t) == ColumnStep(t, Operating_System, "object")
WarrantyStep(t) == ColumnStep(t, Warranty, "object")
PricesStep(t) == ColumnStep(t, Prices, "Int64")
RatingStep(t) == ColumnStep(t, Rating, "object")

\* the statements of transform_data up to the logging of its completion
Statements ==
    <<"drop", "brand", "Processor", "RAM", "Operating_System", "Warranty", "Prices", "Rating">>

Statement(name, t) ==
    CASE name = "drop" -> DropArtifactColumns(t)
      [] name = "brand" -> BrandStep(t)
      [] name = "Processor" -> ProcessorStep(t)
      [] name = "RAM" -> RamStep(t)
      [] name = "Operating_System" -> OsStep(t)
      [] name = "Warranty" -> WarrantyStep(t)
      [] name = "Prices" -> PricesStep(t)
      [] name = "Rating" -> RatingStep(t)

\* each statement runs on the frame the one before it left; a raise ends it
RECURSIVE RunStatements(_, _)
RunStatements(res, names) ==
    IF names = <<>> \/ res.err # "none" THEN res
    ELSE RunStatements(Statement(Head(names), res.table), Tail(names))

Normalize(t) == RunStatements(Ok(t), Statements)

----------------------------------------------------------------------------
(* The inputs: what the bucket may hold, and what the run finds on disk    *)
(* and in the warehouse.                                                   *)

\* the row of the specification's end-to-end scenario
BaseRow ==
    [c \in SeqToSet(RequiredColumns) |->
        CASE c = Title -> <<"D", "e", "l", "l", " ", "I", "n", "s", "p", "i", "r", "o", "n", " ", "1", "5">>
          [] c = Processor -> <<"I", "n", "t", "e", "l", " ", "C", "o", "r", "e", " ", "7", " ", "P", "r", "o", "c", "e", "s", "s", "o", "r", " ", "(", "1", "2", "t", "h", " ", "G", "e", "n", ")">>
          [] c = RAM -> <<"8", " ", "G", "B", " ", "D", "D", "R", "4", " ", "3", "2", "0", "0", "M", "H", "z">>
          [] c = Operating_System -> <<"6", "4", " ", "b", "i", "t", " ", "W", "i", "n", "d", "o", "w", "s", " ", "1", "1", " ", "H", "o", "m", "e", " ", "O", "p", "e", "r", "a", "t", "i", "n", "g", " ", "S", "y", "s", "t", "e", "m">>
          [] c = Warranty -> <<"1", " ", "Y", "e", "a", "r", "s", " ", "W", "a", "r", "r", "a", "n", "t", "y">>
          [] c = Prices -> <<"RUPEE", "4", "5", ",", "9", "9", "0">>
          [] c = Rating -> <<"4", "5", ",", "9", "9", "0">>]

\* the values a field takes in a variant row: clean, missing, empty, malformed
FieldTexts(c) ==
    CASE c = Title -> {<<>>, <<" ", " ">>, <<" ", "H", "P", " ", " ", "1", "5", "s">>, <<"A", "c", "e", "r">>}
      [] c = Processor -> {<<>>, <<"I", "n", "t", "e", "l", " ", "C", "o", "r", "e", " ", "5", " ", "P", "r", "o", "c", "e", "s", "s", "o", "r", " ", "(", "1", "1", "t", "h", " ", "G", "e", "n", ")">>,
                           <<" ", "A", "M", "D", " ", "R", "y", "z", "e", "n", " ", "5", " ">>, <<"(", "x", ")">>}
      [] c = RAM -> {<<>>, <<"1", "6", " ", "G", "B", " ", "D", "D", "R", "4", " ", "R", "A", "M">>, <<"8">>, <<" ", " ">>, <<"N", "/", "A">>}
      [] c = Operating_System -> {<<>>, <<"M", "a", "c", " ", "O", "S">>, <<"6", "4", " ", "b", "i", "t", " ", "W", "i", "n", "d", "o", "w", "s", " ", "1", "1", " ", "O", "p", "e", "r", "a", "t", "i", "n", "g", " ", "S", "y", "s", "t", "e", "m">>}
      [] c = Warranty -> {<<>>, <<"1", " ", "Y", "r", " ", "W", "a", "r", "r", "a", "n", "t", "y">>, <<"O", "n", "e", "-", "y", "e", "a", "r", " ", "I", "n", "t", "e", "r", "n", "a", "t", "i", "o", "n", "a", "l", " ", "W", "a", "r", "r", "a", "n", "t", "y">>,
                          <<"1", "1", " ", "Y", "r">>, <<"1", " ", "Y", "e", "a", "r", "s", "s">>, <<"6">>, <<"3", " ", "Y", "e", "a", "r", "s", " ", "O", "n", "s", "i", "t", "e">>}
      [] c = Prices -> {<<>>, <<"N", "/", "A">>, <<"7", "4", "9", "9", "0">>, <<"-", "5">>, <<"a", "b", "c">>, <<"RUPEE", "7", "4", ",", "9", "9", "0">>}
      [] c = Rating -> {<<>>, <<"7", "4", ",", "9", "9", "0">>, <<"5", "7", ",", "4", "9", "9">>, <<"4", ".", "5">>, <<"1", "7", "4", ",", "9", "9", "0">>, <<"g", "o", "o", "d">>}

VariantRows ==
    {BaseRow} \cup
    {[BaseRow EXCEPT ![c] = s] : <<c, s>> \in
        UNION {{<<c, s>> : s \in FieldTexts(c)} : c \in SeqToSet(RequiredColumns)}}

LargeVariantRows ==
    {[BaseRow EXCEPT ![Title] = <<"A", "c", "e", "r">>, ![Rating] = <<"7", "4", ",", "9", "9", "0">>],
     [BaseRow EXCEPT ![Prices] = <<"N", "/", "A">>]}

Unnamed0 == <<"U", "n", "n", "a", "m", "e", "d", ":", " ", "0">>
OldUnnamed == <<"O", "l", "d", " ", "U", "n", "n", "a", "m", "e", "d", ":", " ", "0">>
Link == <<"L", "i", "n", "k">>

\* the columns a header may hold besides the required ones
ExtraColumns == {<<>>, <<Unnamed0>>, <<Unnamed0, Link>>, <<OldUnnamed>>, <<Link, Brand_Name>>}

\* the field of an extra column in row i: the index pandas wrote, or a text
ExtraText(c, i) == IF c \in {Unnamed0, OldUnnamed} THEN IntToStr(i - 1) ELSE <<"x">>

\* a CSV of n rows, all BaseRow but row k, with the columns `extra` in front
CsvTable(n, k, r, extra) ==
    [columns |-> extra \o RequiredColumns,
     rows    |-> [i \in 1..n |->
                    [c \in SeqToSet(extra \o RequiredColumns) |->
                        IF c \in SeqToSet(extra) /\ c \notin SeqToSet(RequiredColumns)
                        THEN ExtraText(c, i)
                        ELSE IF i = k THEN r[c] ELSE BaseRow[c]]]]

SmallTables ==
    {CsvTable(n, k, r, extra) :
        <<n, k, r, extra>> \in
            {q \in (0..MaxSmallRows) \X (1..MaxSmallRows) \X VariantRows \X ExtraColumns :
                (q[1] = 0 /\ q[2] = 1 /\ q[3] = BaseRow) \/ (q[1] > 0 /\ q[2] <= q[1])}}

LargeTables ==
    {CsvTable(n, k, r, <<Unnamed0>>) :
        <<n, k, r>> \in
            {q \in ((HeadRows - 1)..MaxRows) \X {1, HeadRows, HeadRows + 1, MaxRows}
                     \X LargeVariantRows : q[2] <= q[1]}}

CsvTables == SmallTables \cup LargeTables

\* get_object raising (no such key, access denied), read_csv raising, or a table
S3Objects ==
    {[status |-> s] : s \in {"NoSuchKey", "AccessDenied", "Malformed"}} \cup
    {[status |-> "ok", columns |-> t.columns, rows |-> t.rows] : t \in CsvTables}

\* what an earlier run left behind
StaleFile == [columns |-> <<Brand_Name>>, rows |-> <<[c \in {Brand_Name} |-> <<"O", "l", "d">>]>>]
PriorWarehouse == [columns |-> <<Brand_Name>>, rows |-> <<[c \in {Brand_Name} |-> Str(<<"O", "l", "d">>)]>>]

----------------------------------------------------------------------------
(* The run: run_etl calls the three stages in turn.                        *)

\* run_etl calling transform_data again on the frame it has just transformed
StageAfter_redo(stage) ==
    CASE stage = "extract" -> "transform"
      [] stage = "transform" -> "transform"
      [] stage = "load" -> "done"

\* the stage run_etl calls after `stage` has returned
StageAfter(stage) ==
    CASE stage = "extract" -> "transform"
      [] stage = "transform" -> "load"
      [] stage = "load" -> "done"

Init ==
    /\ pc = "extract"
    /\ s3_object \in S3Objects
    /\ raw_data = None
    /\ transformed_data = None
    /\ artifacts \in {[raw |-> None, transformed |-> None],
                      [raw |-> StaleFile, transformed |-> StaleFile]}
    /\ warehouse \in {None, PriorWarehouse}
    /\ log = <<>>
    /\ error = "none"
    /\ rule = <<>>
    /\ arg = NA
    /\ results = <<>>

harness == <<rule, arg, results>>

\* extract_data saving a snapshot of what it has (nothing) before it raises
ExtractFailure_snapshot(e) ==
    /\ pc' = "aborted"
    /\ error' = e
    /\ log' = log \o <<"Extracting data from S3 bucket">>
    /\ artifacts' = [artifacts EXCEPT !.raw = [columns |-> <<>>, rows |-> <<>>]]
    /\ UNCHANGED raw_data

\* get_object or read_csv raises: nothing was parsed, nothing is written
ExtractFailure(e) ==
    /\ pc' = "aborted"
    /\ error' = e
    /\ log' = log \o <<"Extracting data from S3 bucket">>
    /\ UNCHANGED <<raw_data, artifacts>>

\* the table is parsed whole, then saved to artifacts/raw_data.csv
ExtractSuccess ==
    /\ raw_data' = ReadCsv(s3_object)
    /\ artifacts' = [artifacts EXCEPT !.raw = ToCsv(ReadCsv(s3_object))]
    /\ log' = log \o <<"Extracting data from S3 bucket", "Data extraction completed",
                       "Raw data saved">>
    /\ pc' = StageAfter("extract")
    /\ error' = error

extract_data ==
    /\ pc = "extract"
    /\ IF s3_object.status \in {"NoSuchKey", "AccessDenied"} THEN ExtractFailure("ClientError")
       ELSE IF s3_object.status = "Malformed" THEN ExtractFailure("ParserError")
       ELSE ExtractSuccess
    /\ UNCHANGED <<s3_object, transformed_data, warehouse, harness>>

\* transform_data saving the frame after head(50) instead of before it
transform_data_saved_head(t) ==
    LET res == Normalize(t)
    IN  [err      |-> res.err,
         table    |-> res.table,
         saved    |-> ToCsv(head(res.table, HeadRows)),
         returned |-> head(res.table, HeadRows)]

\* transform_data(raw_data): the exception it raised, the frame as it left
\* it, the file it saved and the frame it returned
transform_data(t) ==
    LET res == Normalize(t)
    IN  [err      |-> res.err,
         table    |-> res.table,
         saved    |-> ToCsv(res.table),
         returned |-> head(res.table, HeadRows)]

TransformData ==
    /\ pc = "transform"
    /\ LET res == transform_data(raw_data)
       IN  /\ raw_data' = res.table
           /\ IF res.err = "none"
              THEN /\ artifacts' = [artifacts EXCEPT !.transformed = res.saved]
                   /\ transformed_data' = res.returned
                   /\ log' = log \o <<"Starting data transformation",
                                      "Data transformation completed",
                                      "Transformed data saved">>
                   /\ pc' = StageAfter("transform")
                   /\ error' = error
              ELSE /\ log' = log \o <<"Starting data transformation">>
                   /\ pc' = "aborted"
                   /\ error' = res.err
                   /\ UNCHANGED <<artifacts, transformed_data>>
    /\ UNCHANGED <<s3_object, warehouse, harness>>

LoadOk ==
    /\ pc = "load"
    /\ warehouse' = ToSql(warehouse, transformed_data)
    /\ log' = log \o <<"Loading data into Redshift table", "Data loaded successfully">>
    /\ pc' = StageAfter("load")
    /\ UNCHANGED <<s3_object, raw_data, transformed_data, artifacts, error, harness>>

\* create_engine or to_sql raises: the table is as it was, or dropped, or
\* created anew and empty, as far as the replace got
LoadFail ==
    /\ pc = "load"
    /\ warehouse' \in {warehouse, None, ToSql(warehouse, head(transformed_data, 0))}
    /\ log' = log \o <<"Loading data into Redshift table">>
    /\ pc' = "aborted"
    /\ error' = "OperationalError"
    /\ UNCHANGED <<s3_object, raw_data, transformed_data, artifacts, harness>>

\* the call either returns or raises
load_data_to_redshift == LoadOk \/ LoadFail

\* raw_data = extract_data(); transformed_data = transform_data(raw_data);
\* load_data_to_redshift(transformed_data, table_name)
run_etl == extract_data \/ TransformData \/ load_data_to_redshift

Next == run_etl

Spec == Init /\ [][Next]_vars

----------------------------------------------------------------------------
(* The rule harness: one cell of a text column, and the rule of its column *)
(* applied to it, then to its own result.                                  *)

\* every concatenation of at most n of the fragments
RECURSIVE Concats(_, _)
Concats(frags, n) ==
    IF n = 0 THEN {<<>>}
    ELSE LET shorter == Concats(frags, n - 1)
         IN  shorter \cup {f \o s : f \in frags, s \in shorter}

\* every text of at most n tokens, a single space between two tokens
RECURSIVE Phrases(_, _)
Phrases(tokens, n) ==
    IF n = 0 THEN {<<>>}
    ELSE LET shorter == Phrases(tokens, n - 1)
         IN  shorter \cup tokens \cup {t \o <<" ">> \o s : t \in tokens, s \in shorter \ {<<>>}}

RuleTexts(col) ==
    CASE col = Processor ->
            Concats({<<"I", "n", "t", "e", "l", " ", "C", "o", "r", "e", " ", "5", " ", "P", "r", "o", "c", "e", "s", "s", "o", "r">>, <<"I", "n", "t", "e", "l", " ", "C", "o", "r", "e", " ", "7", " ", "P", "r", "o", "c", "e", "s", "s", "o", "r">>, <<" ">>,
                     <<"(", "1", "1", "t", "h", " ", "G", "e", "n", ")">>, <<"A", "M", "D">>, <<"i">>}, MaxParts)
      [] col = RAM -> Concats({<<"1", "6">>, <<"G", "B">>, <<" ">>, <<"\t">>}, MaxParts)
      [] col = Operating_System ->
            Concats({<<"6", "4", " ", "b", "i", "t", " ", "W", "i", "n", "d", "o", "w", "s", " ", "1", "1", " ", "H", "o", "m", "e", " ", "O", "p", "e", "r", "a", "t", "i", "n", "g", " ", "S", "y", "s", "t", "e", "m">>, <<"6", "4", " ", "b", "i", "t", " ", "W", "i", "n", "d", "o", "w", "s", " ", "1", "1", " ">>,
                     <<"H", "o", "m", "e", " ">>, <<"O", "p", "e", "r", "a", "t", "i", "n", "g", " ", "S", "y", "s", "t", "e", "m">>, <<"M", "a", "c">>}, MaxParts)
      [] col = Warranty ->
            Phrases({<<"1">>, <<"1", "1">>, <<"3">>, <<"Y", "r">>, <<"Y", "e", "a", "r", "s">>, <<"Y", "e", "a", "r", "s", "s">>, <<"y", "e", "a", "r">>,
                     <<"O", "n", "e", "-", "y", "e", "a", "r">>, <<"I", "n", "t", "e", "r", "n", "a", "t", "i", "o", "n", "a", "l">>, <<"W", "a", "r", "r", "a", "n", "t", "y">>}, MaxParts)
      [] col = Prices -> Concats({<<"0">>, <<"7">>, <<",">>, <<"RUPEE">>, <<"-">>}, MaxPriceLen)
      [] col = Rating -> Concats({<<"7", "4", ",", "9", "9", "0">>, <<"5", "7", ",", "4", "9", "9">>, <<"4", ".", "5">>, <<"1">>, <<",">>}, MaxParts)

RuleColumns == {Processor, RAM, Operating_System, Warranty, Prices, Rating}

\* the rule on a cell of a column: a text column holds texts and missing
\* values; a number is a cell of a numeric column, whose .str raises
ColumnRule(col, c) == IF IsNum(c) \/ IsFlt(c) THEN Raise("AttributeError") ELSE CellRule(col, c)

InitRules ==
    /\ pc = "idle"
    /\ s3_object = [status |-> "NoSuchKey"]
    /\ raw_data = None
    /\ transformed_data = None
    /\ artifacts = [raw |-> None, transformed |-> None]
    /\ warehouse = None
    /\ log = <<>>
    /\ error = "none"
    /\ rule \in RuleColumns
    /\ arg \in {NA} \cup {Str(s) : s \in RuleTexts(rule)}
    /\ results = <<>>

ApplyRule ==
    /\ pc = "idle"
    /\ Len(results) < MaxApply
    /\ results # <<>> => ~IsRaise(results[Len(results)])
    /\ results' = Append(results,
                         ColumnRule(rule, IF results = <<>> THEN arg ELSE results[Len(results)]))
    /\ UNCHANGED <<pc, s3_object, raw_data, transformed_data, artifacts, warehouse,
                   log, error, rule, arg>>

NextRules == ApplyRule

SpecRules == InitRules /\ [][NextRules]_vars

----------------------------------------------------------------------------
(* The claims.                                                             *)

\* what a run that meets no error logs, in order
FullLog ==
    <<"Extracting data from S3 bucket", "Data extraction completed", "Raw data saved",
      "Starting data transformation", "Data transformation completed",
      "Transformed data saved",
      "Loading data into Redshift table", "Data loaded successfully">>

Logged(msg) == msg \in SeqToSet(log)

IsPrefix(xs, ys) == Len(xs) <= Len(ys) /\ xs = SubSeq(ys, 1, Len(xs))

Min(a, b) == IF a < b THEN a ELSE b

\* the frame read_csv gives for the bucket's table, and what Normalize makes of it
Fetched == ReadCsv(s3_object)
Normalized == Normalize(Fetched)

FetchErrors == {"ClientError", "ParserError"}
TransformErrors == {"TypeError", "AttributeError", "KeyError"}

\* C1: the stages of a run happen in the order extract, transform, load, each
\* at most once: the log is always a prefix of the full run's log, the
\* transformation starts only with the whole table fetched and the raw
\* snapshot written, and the load starts only with the transformation's
\* result returned and saved.
C1_StagesInOrder ==
    /\ IsPrefix(log, FullLog)
    /\ pc = "extract" => log = <<>>
    /\ pc = "transform" =>
          /\ log = SubSeq(FullLog, 1, 3)
          /\ raw_data = Fetched
          /\ artifacts.raw = ToCsv(Fetched)
    /\ Logged("Starting data transformation") =>
          /\ Logged("Raw data saved")
          /\ artifacts.raw = ToCsv(Fetched)
    /\ pc = "load" =>
          /\ log = SubSeq(FullLog, 1, 6)
          /\ transformed_data = head(Normalized.table, HeadRows)
    /\ Logged("Loading data into Redshift table") =>
          /\ Logged("Transformed data saved")
          /\ transformed_data # None
    /\ pc = "done" => log = FullLog

C1_Witness == pc = "done" /\ log = FullLog /\ Len(raw_data.rows) = 2

\* C2: when the fetch fails (no such key, access denied, a CSV that does not
\* parse), the step that finds it aborts the run with nothing parsed, nothing
\* written to either snapshot, the warehouse as it was and only the start of
\* the extraction logged; and no step follows, so no rule and no load runs.
C2_FetchFailureAborts ==
    [][/\ error \in FetchErrors => FALSE
       /\ (pc = "extract" /\ s3_object.status # "ok") =>
             /\ pc' = "aborted"
             /\ error' \in FetchErrors
             /\ raw_data' = None
             /\ transformed_data' = None
             /\ artifacts' = artifacts
             /\ warehouse' = warehouse
             /\ log' = <<"Extracting data from S3 bucket">>
       /\ error' \in FetchErrors => (pc = "extract" /\ s3_object.status # "ok")]_vars

C2_Witness ==
    /\ pc = "aborted"
    /\ error = "ParserError"
    /\ s3_object.status = "Malformed"
    /\ artifacts.raw = StaleFile
    /\ warehouse = PriorWarehouse

\* C3: in every state where the load has been entered, both snapshots are
\* written, the transformed snapshot holds the normalized table in full (as
\* many rows as were fetched, not the 50 that are loaded), and a failed load
\* has ended the run: the load was entered once and no step is left to take.
C3_LoadAfterSnapshots ==
    Logged("Loading data into Redshift table") =>
        /\ artifacts.raw = ToCsv(Fetched)
        /\ Normalized.err = "none"
        /\ artifacts.transformed = ToCsv(Normalized.table)
        /\ Len(artifacts.transformed.rows) = Len(s3_object.rows)
        /\ error = "OperationalError" =>
              /\ pc = "aborted"
              /\ log = SubSeq(FullLog, 1, 7)
              /\ ~ENABLED Next

C3_Witness ==
    /\ error = "OperationalError"
    /\ Len(artifacts.transformed.rows) > HeadRows
    /\ Len(transformed_data.rows) = HeadRows

\* C4: after a run that completes on a table of n rows the warehouse table
\* holds exactly the first min(50, n) normalized rows, in their order, and
\* nothing else, whatever it held before.
C4_WarehouseReplaced ==
    pc = "done" =>
        LET n == Len(s3_object.rows)
            full == Normalized.table
        IN  /\ warehouse.columns = full.columns
            /\ Len(warehouse.rows) = Min(HeadRows, n)
            /\ \A i \in 1..Min(HeadRows, n) : \A c \in SeqToSet(full.columns) :
                  warehouse.rows[i][c] = IF full.rows[i][c] = NA THEN NULL ELSE full.rows[i][c]

C4_Witness ==
    /\ pc = "done"
    /\ Len(s3_object.rows) > HeadRows
    /\ Len(warehouse.rows) = HeadRows
    /\ warehouse.rows[HeadRows] # warehouse.rows[1]

\* C5: a transform-level data defect never aborts the run: once the
\* transformation of a table with the required columns has started, it has
\* completed without raising, with every row retained, and the run has gone
\* on to the load.
C5_TransformNeverAborts ==
    Logged("Starting data transformation") =>
        /\ error \notin TransformErrors
        /\ Logged("Transformed data saved")
        /\ Len(raw_data.rows) = Len(s3_object.rows)
        /\ pc \in {"load", "done", "aborted"}

\* C6: the rules of Processor, RAM, Operating_System, Warranty and Rating are
\* idempotent: a rule applied to its own result gives that result again.
C6_RulesIdempotent ==
    (rule \in RuleColumns \ {Prices} /\ Len(results) >= 2) => results[2] = results[1]

\* C7: the columns after normalization are the input's columns whose name
\* does not start with "Unnamed:", less Title, plus Brand_Name; Brand_Name is
\* the first token of the row's title, and a column no rule names keeps its
\* values.
C7_ColumnsAfterNormalize ==
    Logged("Data transformation completed") =>
        LET before == SeqToSet(Fetched.columns)
            kept == {c \in before : ~StartsWith(c, prefix)} \ {Title}
        IN  /\ SeqToSet(raw_data.columns) = kept \cup {Brand_Name}
            /\ \A i \in 1..Len(raw_data.rows) :
                  /\ raw_data.rows[i][Brand_Name] = BrandOf(Fetched.rows[i][Title])
                  /\ \A c \in (kept \ {Brand_Name}) \ RuleColumns :
                        raw_data.rows[i][c] = Fetched.rows[i][c]

WarrantyKeys == {warranty_replacements[i][1] : i \in 1..Len(warranty_replacements)}

WarrantyCanonical(two) ==
    IF two \in WarrantyKeys
    THEN (CHOOSE kv \in SeqToSet(warranty_replacements) : kv[1] = two)[2]
    ELSE two

\* C8: the warranty rule keeps the first two tokens, joined by one space, and
\* maps that value through the table: a value that is a key becomes the key's
\* canonical form, every other value is returned as it is.
C8_WarrantyMapsWholeValues ==
    (rule = Warranty /\ IsStr(arg) /\ results # <<>>) =>
        results[1] = Str(WarrantyCanonical(Join(FirstN(Split(arg.str), 2), <<" ">>)))

\* C9: the rating rule changes only the two collided values: "74,990" and
\* "57,499" become "4.3", every other rating is returned as it is.
C9_RatingOnlyCollided ==
    (rule = Rating /\ IsStr(arg) /\ results # <<>>) =>
        results[1] = IF arg.str \in {<<"7", "4", ",", "9", "9", "0">>, <<"5", "7", ",", "4", "9", "9">>} THEN Str(<<"4", ".", "3">>) ELSE arg

\* the number whose decimal digits are the digit characters of s, read left
\* to right; acc is the number read so far
RECURSIVE DigitsValue(_, _)
DigitsValue(s, acc) ==
    IF s = <<>> THEN acc
    ELSE IF Head(s) \in Digits THEN DigitsValue(Tail(s), 10 * acc + DigitVal(Head(s)))
    ELSE DigitsValue(Tail(s), acc)

HasDigit(s) == \E i \in 1..Len(s) : s[i] \in Digits

============================================================================
